---- MODULE Spec2Model ----
(***************************************************************************)
(* Model of the lexical retrieval engine of src/src/App.jsx (tokenize,     *)
(* chunkText, buildTfIdfIndex, tfidfQuery) and of the React state of App   *)
(* and Documents.handleFiles that holds the document set and the index.    *)
(*                                                                         *)
(* Text is a sequence of one-character strings.  Real numbers are fixed    *)
(* point integers counted in units of 1/Unit.                              *)
(***************************************************************************)
EXTENDS Integers, Sequences, FiniteSets, TLC

VARIABLES
  pc,          \* position of the running call: "chunk", "docs", "done", "raised", "exhausted", "query", "answered", "app"
  text,        \* chunkText: parameter text
  chunkSize,   \* chunkText: parameter chunkSize
  overlap,     \* chunkText: parameter overlap
  i,           \* chunkText: the cursor i
  parts,       \* chunkText: the local array chunks (before the final filter)
  ret,         \* chunkText: the returned array
  documents,   \* buildTfIdfIndex: parameter documents
  d,           \* buildTfIdfIndex: position of the for-of loop over documents (1-based)
  chunks,      \* buildTfIdfIndex: the local array chunks
  built,       \* buildTfIdfIndex: the returned snapshot, or NoIndex
  index,       \* App: the state index (line 518), the snapshot handed to tfidfQuery
  asked,       \* tfidfQuery: the parameters query and k of the last call, or NoQuery
  hits,        \* tfidfQuery: the array returned by the last call
  docs,        \* App: the state docs (line 517)
  indexFrom,   \* the document sequence the snapshot in index was built from
  effects,     \* App: the effects of lines 521-522 committed and not yet run
  calls,       \* Documents: the handleFiles invocations suspended on a file read
  nextId       \* Documents: number of document ids handed out by line 324

chunkVars == <<text, chunkSize, overlap, i, parts, ret>>
buildVars == <<documents, d, chunks, built>>
queryVars == <<index, asked, hits>>
appVars == <<docs, indexFrom, effects, calls, nextId>>
vars == <<pc, text, chunkSize, overlap, i, parts, ret, documents, d, chunks, built,
          index, asked, hits, docs, indexFrom, effects, calls, nextId>>

----------------------------------------------------------------------------
(* Bounds of the model *)

MaxLen == 3        \* longest text drawn as an input
MaxChunk == 3      \* largest non-default chunkSize drawn as an input
MaxOverlap == 3    \* largest non-default overlap drawn as an input
HeapLimit == 6     \* array length at which the engine gives up growing an array
MaxDocs == 2       \* longest document sequence drawn as an input of a build
MaxDocLen == 2     \* longest document text drawn as an input of a build
Unit == 100        \* fixed point: a real x is the integer x * Unit, rounded down
MaxPassages == 3   \* most passages of a snapshot drawn as an input of a query
MaxUploads == 3    \* most files handed to handleFiles over a run of App

(* Program constants *)

DefaultChunkSize == 600
DefaultOverlap == 80
DefaultK == 4

----------------------------------------------------------------------------
(* Characters and strings *)

Chars == {"a", "b", "A", " ", "."}

\* the value of a missing property (d.text of a document without text)
Undefined == <<"undefined">>

NoIndex == [absent |-> TRUE]

NoQuery == [none |-> TRUE]

NoDocs == <<"none">>

\* the values of the variables of tfidfQuery and of App while neither runs
OthersIdle ==
  /\ index = NoIndex
  /\ asked = NoQuery
  /\ hits = <<>>
  /\ docs = <<>>
  /\ indexFrom = NoDocs
  /\ effects = <<>>
  /\ calls = <<>>
  /\ nextId = 0

RECURSIVE TextsOfLen(_)
TextsOfLen(n) ==
  IF n = 0 THEN {<<>>}
  ELSE {Append(s, c) : s \in TextsOfLen(n - 1), c \in Chars}

Texts == UNION {TextsOfLen(n) : n \in 0..MaxLen}

Min(a, b) == IF a < b THEN a ELSE b

IsSpace(c) == c = " "

\* String.prototype.slice(from, to) for 0 <= from, to <= length (0-based, to exclusive)
Slice(s, from, to) == IF to <= from THEN <<>> ELSE SubSeq(s, from + 1, to)

RECURSIVE TrimLeft(_)
TrimLeft(s) ==
  IF s = <<>> THEN <<>>
  ELSE IF IsSpace(Head(s)) THEN TrimLeft(Tail(s)) ELSE s

RECURSIVE TrimRight(_)
TrimRight(s) ==
  IF s = <<>> THEN <<>>
  ELSE IF IsSpace(s[Len(s)]) THEN TrimRight(SubSeq(s, 1, Len(s) - 1)) ELSE s

\* String.prototype.trim
Trim(s) == TrimRight(TrimLeft(s))

\* Array.prototype.filter(Boolean) on an array of strings: drops the empty strings
RECURSIVE FilterBoolean(_)
FilterBoolean(arr) ==
  IF arr = <<>> THEN <<>>
  ELSE IF Head(arr) = <<>> THEN FilterBoolean(Tail(arr))
       ELSE <<Head(arr)>> \o FilterBoolean(Tail(arr))

----------------------------------------------------------------------------
(* tokenize *)

ToLowerChar(c) == IF c = "A" THEN "a" ELSE c

ToLowerCase(s) == [k \in 1..Len(s) |-> ToLowerChar(s[k])]

\* .replace(/[^a-z0-9\s]/g, " ")
ReplaceNonAlnum(s) ==
  [k \in 1..Len(s) |-> IF s[k] \in {"a", "b"} \/ IsSpace(s[k]) THEN s[k] ELSE " "]

\* .split(/\s+/): the fields between maximal runs of whitespace, empty fields
\* at either end included ("" splits to [""])
RECURSIVE SplitFrom(_, _, _)
SplitFrom(s, k, field) ==
  IF k > Len(s) THEN <<field>>
  ELSE IF IsSpace(s[k])
       THEN IF k > 1 /\ IsSpace(s[k - 1])
            THEN SplitFrom(s, k + 1, field)
            ELSE <<field>> \o SplitFrom(s, k + 1, <<>>)
       ELSE SplitFrom(s, k + 1, Append(field, s[k]))

SplitWhitespace(s) == SplitFrom(s, 1, <<>>)

\* tokenize without the final filter(Boolean)
tokenizeUnfiltered(t) ==
  SplitWhitespace(ReplaceNonAlnum(ToLowerCase(IF t = Undefined THEN <<>> ELSE t)))

tokenize(t) ==
  FilterBoolean(SplitWhitespace(ReplaceNonAlnum(ToLowerCase(
    IF t = Undefined THEN <<>> ELSE t))))

----------------------------------------------------------------------------
(* chunkText, one action per loop iteration *)

\* lines 26-30: the cursor and the array after one iteration of the while loop
ChunkStep(t, size, ov, cur, acc) ==
  LET end == Min(Len(t), cur + size)
      slice == Slice(t, cur, end)
  IN [i |-> IF end - ov < 0 THEN 0 ELSE end - ov,
      parts |-> Append(acc, Trim(slice))]

\* lines 25-31: one iteration of the while loop
ChunkLoop ==
  /\ pc = "chunk"
  /\ text # Undefined
  /\ i < Len(text)
  /\ \E s \in {ChunkStep(text, chunkSize, overlap, i, parts)} :
       /\ parts' = s.parts
       /\ i' = s.i
  /\ pc' = IF Len(parts) + 1 > HeapLimit THEN "exhausted" ELSE "chunk"
  /\ UNCHANGED <<text, chunkSize, overlap, ret, buildVars, queryVars, appVars>>

\* line 25: text.length of a missing text throws a TypeError
ChunkRaise ==
  /\ pc = "chunk"
  /\ text = Undefined
  /\ pc' = "raised"
  /\ UNCHANGED <<chunkVars, buildVars, queryVars, appVars>>

\* lines 25, 32: the loop ends and the non-empty chunks are returned
ChunkReturn ==
  /\ pc = "chunk"
  /\ text # Undefined
  /\ ~(i < Len(text))
  /\ ret' = FilterBoolean(parts)
  /\ pc' = "done"
  /\ UNCHANGED <<text, chunkSize, overlap, i, parts, buildVars, queryVars, appVars>>

ChunkConfigs ==
  ((1..MaxChunk) \X (0..MaxOverlap)) \cup {<<DefaultChunkSize, DefaultOverlap>>}

ChunkInit ==
  /\ pc = "chunk"
  /\ text \in Texts \cup {Undefined}
  /\ \E cfg \in ChunkConfigs : chunkSize = cfg[1] /\ overlap = cfg[2]
  /\ i = 0
  /\ parts = <<>>
  /\ ret = <<>>
  /\ documents = <<>>
  /\ d = 0
  /\ chunks = <<>>
  /\ built = NoIndex
  /\ OthersIdle

ChunkNext == ChunkLoop \/ ChunkRaise \/ ChunkReturn

ChunkSpec == ChunkInit /\ [][ChunkNext]_vars

FairChunkSpec == ChunkSpec /\ WF_vars(ChunkNext)

----------------------------------------------------------------------------
(* Numbers: Math.log and Math.sqrt in fixed point *)

\* ln(n) in millionths, n = 1..12
LnMicro ==
  <<0, 693147, 1098612, 1386294, 1609438, 1791759,
    1945910, 2079442, 2197225, 2302585, 2397895, 2484907>>

\* Math.log(n / m) for 1 <= m <= n
Log(n, m) == ((LnMicro[n] - LnMicro[m]) * Unit) \div 1000000

RECURSIVE SqrtBetween(_, _, _)
SqrtBetween(x, lo, hi) ==
  IF lo >= hi THEN lo
  ELSE LET mid == (lo + hi + 1) \div 2
       IN IF mid * mid <= x THEN SqrtBetween(x, mid, hi)
          ELSE SqrtBetween(x, lo, mid - 1)

\* Math.sqrt of a number counted in units of 1/Unit^2, in units of 1/Unit
\* (TLC's integers are 32 bits wide: no root exceeds 46340)
Sqrt(x) == SqrtBetween(x, 0, Min(x, 46340))

RECURSIVE SumOver(_, _)
SumOver(S, f) ==
  IF S = {} THEN 0
  ELSE LET x == CHOOSE y \in S : TRUE IN f[x] + SumOver(S \ {x}, f)

Range(s) == {s[k] : k \in 1..Len(s)}

Count(s, t) == Cardinality({k \in 1..Len(s) : s[k] = t})

----------------------------------------------------------------------------
(* buildTfIdfIndex *)

\* lines 48-52: document frequency of every term of the chunks
DocFreq(cs) ==
  [t \in UNION {Range(cs[n].tokens) : n \in 1..Len(cs)} |->
     Cardinality({n \in 1..Len(cs) : t \in Range(cs[n].tokens)})]

\* df.get(t) || 0
DfGet(df, t) == IF t \in DOMAIN df THEN df[t] ELSE 0

\* the inverse document frequency without the smoothing "+ 1"
IdfUnsmoothed(df, N, t) == Log(N + 1, DfGet(df, t) + 1)

\* line 61 and line 81: Math.log((N + 1) / ((df.get(t) || 0) + 1)) + 1
Idf(df, N, t) == Log(N + 1, DfGet(df, t) + 1) + Unit

\* lines 56-65 and 75-85: the weight of every distinct term of a token sequence
Weights(tokens, df, N) ==
  [t \in Range(tokens) |-> (Count(tokens, t) * Idf(df, N, t)) \div Len(tokens)]

\* len2: the sum of the squared weights, in units of 1/Unit^2
Len2(vec) == SumOver(DOMAIN vec, [t \in DOMAIN vec |-> vec[t] * vec[t]])

\* Math.max(1, x): a floor at 1
FloorOne(x) == IF x < Unit THEN Unit ELSE x

\* x || 1
OrOne(x) == IF x = 0 THEN Unit ELSE x

\* line 66 and line 86: Math.sqrt(len2) || 1
Norm(vec) == OrOne(Sqrt(Len2(vec)))

\* lines 47-68: the snapshot of an array of chunks
IndexOf(cs) ==
  LET df == DocFreq(cs)
      N == IF Len(cs) = 0 THEN 1 ELSE Len(cs)
  IN [chunks |-> [n \in 1..Len(cs) |->
                    LET vec == Weights(cs[n].tokens, df, N)
                    IN [id |-> cs[n].id, docId |-> cs[n].docId, title |-> cs[n].title,
                        text |-> cs[n].text, tokens |-> cs[n].tokens,
                        vec |-> vec, norm |-> Norm(vec)]],
      df |-> df,
      N |-> N]

\* lines 41-45: the chunks of document doc appended to the array cs
RECURSIVE Collect(_, _, _)
Collect(cs, doc, ps) ==
  IF ps = <<>> THEN cs
  ELSE LET tokens == tokenize(Head(ps))
       IN IF Len(tokens) = 0 THEN Collect(cs, doc, Tail(ps))
          ELSE Collect(Append(cs, [id |-> Len(cs), docId |-> doc.id, title |-> doc.title,
                                   text |-> Head(ps), tokens |-> tokens]),
                       doc, Tail(ps))

\* lines 39-40: the next document's text is handed to chunkText
BuildNextDoc ==
  /\ pc = "docs"
  /\ d <= Len(documents)
  /\ text' = documents[d].text
  /\ chunkSize' = DefaultChunkSize
  /\ overlap' = DefaultOverlap
  /\ i' = 0
  /\ parts' = <<>>
  /\ pc' = "chunk"
  /\ UNCHANGED <<ret, buildVars, queryVars, appVars>>

\* lines 25, 32 and 41-45: chunkText returns and the document's chunks are kept
BuildCollect ==
  /\ pc = "chunk"
  /\ text # Undefined
  /\ ~(i < Len(text))
  /\ ret' = FilterBoolean(parts)
  /\ chunks' = Collect(chunks, documents[d], FilterBoolean(parts))
  /\ d' = d + 1
  /\ pc' = "docs"
  /\ UNCHANGED <<text, chunkSize, overlap, i, parts, documents, built, queryVars, appVars>>

\* lines 47-68: all documents are chunked, the snapshot is returned
BuildFinish ==
  /\ pc = "docs"
  /\ d > Len(documents)
  /\ built' = IndexOf(chunks)
  /\ pc' = "done"
  /\ UNCHANGED <<chunkVars, documents, d, chunks, queryVars, appVars>>

DocTexts == UNION {TextsOfLen(n) : n \in 0..MaxDocLen}

DocIds == <<"d1", "d2", "d3", "d4">>

\* the document sequences with ids d1, d2, ... whose texts are those of txts
DocSeqs(len, txts) ==
  {[n \in 1..len |-> [id |-> DocIds[n], title |-> DocIds[n], text |-> f[n]]] :
     f \in [1..len -> txts]}

BuildInit ==
  /\ pc = "docs"
  /\ documents \in UNION {DocSeqs(len, DocTexts \cup {Undefined}) : len \in 0..MaxDocs}
  /\ d = 1
  /\ chunks = <<>>
  /\ built = NoIndex
  /\ text = <<>>
  /\ chunkSize = DefaultChunkSize
  /\ overlap = DefaultOverlap
  /\ i = 0
  /\ parts = <<>>
  /\ ret = <<>>
  /\ OthersIdle

BuildNext == BuildNextDoc \/ ChunkLoop \/ ChunkRaise \/ BuildCollect \/ BuildFinish

BuildSpec == BuildInit /\ [][BuildNext]_vars

----------------------------------------------------------------------------
(* Claims about chunkText and buildTfIdfIndex *)

\* C1: for every text and every configuration with chunkSize > overlap >= 0,
\* chunkText terminates: the cursor reaches the text length and the call returns.
C1_ChunkTextTerminates ==
  (text # Undefined /\ chunkSize > overlap /\ overlap >= 0) => <>(pc = "done")

\* C2: once a build over documents that all have a text has ended, it has
\* returned a snapshot in which every document with non-empty text has at least
\* one passage, and exactly one when its text is no longer than chunkSize.
C2_Coverage ==
  (pc \in {"done", "exhausted"} /\ \A n \in 1..Len(documents) : documents[n].text # Undefined)
    => /\ pc = "done"
       /\ \A n \in 1..Len(documents) :
            LET own == {m \in 1..Len(built.chunks) : built.chunks[m].docId = documents[n].id}
            IN documents[n].text # <<>>
                 => /\ own # {}
                    /\ Len(documents[n].text) <= DefaultChunkSize => Cardinality(own) = 1

\* C5: buildTfIdfIndex never raises on a document whose text is missing or empty.
C5_BuildNeverRaises == pc # "raised"

\* C6: a configuration with overlap >= chunkSize is rejected before the loop:
\* chunkText runs no iteration with such a pair and never fails to terminate on it.
C6_InvalidConfigRejected ==
  overlap >= chunkSize => (parts = <<>> /\ pc # "exhausted")

----------------------------------------------------------------------------
(* tfidfQuery *)

\* c.vec.get(t) || 0
VecGet(vec, t) == IF t \in DOMAIN vec THEN vec[t] ELSE 0

\* lines 88-92: the dot product of the query vector and a chunk's vector
Dot(qvec, vec) ==
  SumOver(DOMAIN qvec, [t \in DOMAIN qvec |-> qvec[t] * VecGet(vec, t)])

\* line 93: dot / (qnorm * c.norm)
Cos(qvec, qnorm, c) == (Dot(qvec, c.vec) * Unit) \div (qnorm * c.norm)

\* lines 87-95: every chunk of the snapshot with its score
Scores(idx, qvec, qnorm) ==
  [n \in 1..Len(idx.chunks) |->
     [id |-> idx.chunks[n].id, docId |-> idx.chunks[n].docId,
      title |-> idx.chunks[n].title, text |-> idx.chunks[n].text,
      tokens |-> idx.chunks[n].tokens, vec |-> idx.chunks[n].vec,
      norm |-> idx.chunks[n].norm, score |-> Cos(qvec, qnorm, idx.chunks[n])]]

\* the comparator with its operands exchanged: an ascending sort
CompareAscending(a, b) == a.score - b.score

\* the comparator of line 96: negative when a sorts before b
Compare(a, b) == b.score - a.score

\* x put before the elements it compares equal to: a sort that is not stable
RECURSIVE InsertSortedUnstable(_, _)
InsertSortedUnstable(sorted, x) ==
  IF sorted = <<>> THEN <<x>>
  ELSE IF Compare(x, Head(sorted)) <= 0 THEN <<x>> \o sorted
       ELSE <<Head(sorted)>> \o InsertSortedUnstable(Tail(sorted), x)

\* x put into the sorted array after every element it does not sort before
RECURSIVE InsertSorted(_, _)
InsertSorted(sorted, x) ==
  IF sorted = <<>> THEN <<x>>
  ELSE IF Compare(x, Head(sorted)) < 0 THEN <<x>> \o sorted
       ELSE <<Head(sorted)>> \o InsertSorted(Tail(sorted), x)

\* Array.prototype.sort with the comparator of line 96 (the sort is stable)
RECURSIVE SortFrom(_, _)
SortFrom(sorted, rest) ==
  IF rest = <<>> THEN sorted
  ELSE SortFrom(InsertSorted(sorted, Head(rest)), Tail(rest))

Sort(arr) == SortFrom(<<>>, arr)

\* Array.prototype.slice(0, k): a negative k counts from the end
SliceTo(arr, k) ==
  LET to == IF k < 0 THEN (IF Len(arr) + k < 0 THEN 0 ELSE Len(arr) + k)
            ELSE Min(k, Len(arr))
  IN SubSeq(arr, 1, to)

\* the chunks of the snapshot in the order of the scored array
Unscored(scored) ==
  [n \in 1..Len(scored) |->
     [id |-> scored[n].id, docId |-> scored[n].docId, title |-> scored[n].title,
      text |-> scored[n].text, tokens |-> scored[n].tokens, vec |-> scored[n].vec,
      norm |-> scored[n].norm]]

\* tfidfQuery sorting index.chunks itself instead of a fresh array
tfidfQueryInPlace(idx, query, k) ==
  IF idx = NoIndex \/ Len(idx.chunks) = 0 THEN [hits |-> <<>>, index |-> idx]
  ELSE LET qTokens == tokenize(query)
       IN IF Len(qTokens) = 0 THEN [hits |-> <<>>, index |-> idx]
          ELSE LET qvec == Weights(qTokens, idx.df, idx.N)
                   qnorm == Norm(qvec)
                   scores == Sort(Scores(idx, qvec, qnorm))
               IN [hits |-> SliceTo(scores, k),
                   index |-> [chunks |-> Unscored(scores), df |-> idx.df, N |-> idx.N]]

\* lines 71-97: the returned array, and the snapshot object as the call leaves it
\* (map builds the array scores anew, and sort reorders that array only)
tfidfQuery(idx, query, k) ==
  IF idx = NoIndex \/ Len(idx.chunks) = 0 THEN [hits |-> <<>>, index |-> idx]
  ELSE LET qTokens == tokenize(query)
       IN IF Len(qTokens) = 0 THEN [hits |-> <<>>, index |-> idx]
          ELSE LET qvec == Weights(qTokens, idx.df, idx.N)
                   qnorm == Norm(qvec)
                   scores == Scores(idx, qvec, qnorm)
               IN [hits |-> SliceTo(Sort(scores), k), index |-> idx]

\* line 437 and any other caller: one call of tfidfQuery on the current index
Query(query, k) ==
  /\ pc = "query"
  /\ \E r \in {tfidfQuery(index, query, k)} :
       /\ hits' = r.hits
       /\ index' = r.index
  /\ asked' = [query |-> query, k |-> k]
  /\ pc' = "answered"
  /\ UNCHANGED <<chunkVars, buildVars, appVars>>

\* lines 438-456: the caller is done with the array and returns
Answered ==
  /\ pc = "answered"
  /\ pc' = "query"
  /\ asked' = NoQuery
  /\ hits' = <<>>
  /\ UNCHANGED <<index, chunkVars, buildVars, appVars>>

(* Inputs of a query *)

\* chunk texts: one term, a repeated term, two terms, three tokens of two terms
PassageTexts ==
  {<<"a">>, <<"b">>, <<"a", " ", "a">>, <<"a", " ", "b">>, <<"b", " ", "b", " ", "a">>}

\* which document each of n chunks comes from: document order, no document skipped
Origins(n) ==
  {g \in [1..n -> 1..MaxDocs] :
     /\ n > 0 => g[1] = 1
     /\ \A m \in 1..(n - 1) : g[m + 1] \in {g[m], g[m] + 1}}

\* lines 39-46: the array chunks for chunk texts f of the documents g
RECURSIVE ChunksOf(_, _, _)
ChunksOf(f, g, n) ==
  IF n = 0 THEN <<>>
  ELSE Collect(ChunksOf(f, g, n - 1),
               [id |-> DocIds[g[n]], title |-> DocIds[g[n]], text |-> <<>>],
               <<f[n]>>)

Snapshots ==
  UNION {{IndexOf(ChunksOf(f, g, n)) : f \in [1..n -> PassageTexts], g \in Origins(n)} :
           n \in 0..MaxPassages}

\* query texts: no term, one term, several terms, a term of no passage ("ab")
QueryTexts ==
  {<<>>, <<" ">>, <<".">>, <<".", " ">>,
   <<"a">>, <<"b">>, <<"A">>, <<"a", ".">>, <<" ", "b">>, <<"a", "b">>,
   <<"a", " ", "b">>, <<"b", ".", "A">>, <<"a", " ", "a">>, <<"a", "b", " ", "a">>}

Ks == (0..MaxPassages) \cup {DefaultK}

QueryInit ==
  /\ pc = "query"
  /\ index \in Snapshots \cup {NoIndex}
  /\ asked = NoQuery
  /\ hits = <<>>
  /\ text = <<>>
  /\ chunkSize = DefaultChunkSize
  /\ overlap = DefaultOverlap
  /\ i = 0
  /\ parts = <<>>
  /\ ret = <<>>
  /\ documents = <<>>
  /\ d = 0
  /\ chunks = <<>>
  /\ built = NoIndex
  /\ docs = <<>>
  /\ indexFrom = NoDocs
  /\ effects = <<>>
  /\ calls = <<>>
  /\ nextId = 0

QueryNext == (\E query \in QueryTexts, k \in Ks : Query(query, k)) \/ Answered

QuerySpec == QueryInit /\ [][QueryNext]_vars

----------------------------------------------------------------------------
(* Claims about tfidfQuery *)

Letters == {"a", "b", "A"}

\* the text holds no letter or digit: it is empty or all punctuation and whitespace
NoTerms(q) == \A n \in 1..Len(q) : q[n] \notin Letters

HasPassages == index # NoIndex /\ Len(index.chunks) > 0

Contains(c, t) == t \in Range(c.tokens)

\* C3: on a snapshot with at least one passage, a query whose terms occur in no
\* passage returns an empty array.
C3_UnseenTermsEmpty ==
  (/\ pc = "answered"
   /\ HasPassages
   /\ tokenize(asked.query) # <<>>
   /\ \A t \in Range(tokenize(asked.query)) : t \notin DOMAIN index.df)
    => hits = <<>>

\* C4: the returned array has at most k elements (k >= 0) and its scores do
\* not increase from the first element to the last.
C4_TopK ==
  pc = "answered"
    => /\ Len(hits) <= asked.k
       /\ \A m, n \in 1..Len(hits) : m < n => hits[m].score >= hits[n].score

\* C4 witness: a call that cut the array short and put a later chunk first
C4_Witness ==
  /\ pc = "answered"
  /\ HasPassages
  /\ Len(hits) = 2
  /\ Len(index.chunks) > asked.k
  /\ hits[1].score > hits[2].score
  /\ hits[1].id > hits[2].id

\* C7: the returned array is empty when the index is absent or has no passage,
\* and when the query text holds no term.
C7_EmptyResult ==
  (pc = "answered" /\ (~HasPassages \/ NoTerms(asked.query))) => hits = <<>>

\* C7 witness: a query without terms on a snapshot with passages
C7_Witness ==
  /\ pc = "answered"
  /\ HasPassages
  /\ asked.query = <<".", " ">>
  /\ asked.k > 0

\* C9: no call of tfidfQuery, and no return of its caller, changes the snapshot:
\* passages (order, tokens, vectors, norms), document frequencies and N stay.
C9_ReadOnly == [][index' = index]_vars

\* C9 witness: a call whose result orders the chunks otherwise than the snapshot
C9_Witness ==
  /\ pc = "answered"
  /\ HasPassages
  /\ Len(hits) = Len(index.chunks)
  /\ Len(hits) >= 2
  /\ hits[1].id > hits[2].id
  /\ \E t \in Range(tokenize(asked.query)) : t \notin DOMAIN index.df

\* the passages of document doc are all repetitions of term t, and no passage
\* of another document contains t
SolelyOf(doc, t) ==
  /\ \E n \in 1..Len(index.chunks) : index.chunks[n].docId = doc
  /\ \A n \in 1..Len(index.chunks) :
       IF index.chunks[n].docId = doc
       THEN Range(index.chunks[n].tokens) = {t}
       ELSE ~Contains(index.chunks[n], t)

\* C10: when the passages of a document are solely repetitions of a term t found
\* in no other passage, the query t scores them above 0 and ranks each of them
\* before every passage without t (none of them is cut off while such a passage
\* is kept).
C10_Relevance ==
  \A doc \in Range(DocIds), t \in {<<"a">>, <<"b">>} :
    (pc = "answered" /\ HasPassages /\ asked.query = t /\ SolelyOf(doc, t))
      => /\ \A m \in 1..Len(hits) : hits[m].docId = doc => hits[m].score > 0
         /\ \A m, n \in 1..Len(hits) :
              (m < n /\ hits[n].docId = doc) => Contains(hits[m], t)
         /\ (\E n \in 1..Len(index.chunks) :
               /\ index.chunks[n].docId = doc
               /\ \A m \in 1..Len(hits) : hits[m].id # index.chunks[n].id)
              => \A m \in 1..Len(hits) : hits[m].docId = doc

\* C10 witness: both passages of the second document rank before the first's
C10_Witness ==
  /\ pc = "answered"
  /\ HasPassages
  /\ asked.query = <<"a">>
  /\ SolelyOf("d2", <<"a">>)
  /\ Len(hits) = 3
  /\ hits[1].docId = "d2"
  /\ hits[2].docId = "d2"
  /\ hits[1].text # hits[2].text
  /\ hits[3].docId = "d1"

\* the score line 93 gives every chunk of the snapshot for the query asked
AllScores ==
  LET qvec == Weights(tokenize(asked.query), index.df, index.N)
  IN Scores(index, qvec, Norm(qvec))

\* C11: two returned passages of equal score come in snapshot order (the id
\* counts the passages in document order, then chunk order), and a passage cut
\* off by the truncation comes later in the snapshot than every returned
\* passage of its score.
C11_StableTies ==
  (pc = "answered" /\ HasPassages /\ tokenize(asked.query) # <<>>)
    => /\ \A m, n \in 1..Len(hits) :
            (m < n /\ hits[m].score = hits[n].score) => hits[m].id < hits[n].id
       /\ \A all \in {AllScores} : \A c \in 1..Len(all) :
            (\A m \in 1..Len(hits) : hits[m].id # all[c].id)
              => \A m \in 1..Len(hits) :
                   hits[m].score = all[c].score => hits[m].id < all[c].id

\* C11 witness: three passages tie above 0 and the third is cut off
C11_Witness ==
  /\ pc = "answered"
  /\ HasPassages
  /\ tokenize(asked.query) # <<>>
  /\ Len(index.chunks) = 3
  /\ Len(hits) = 2
  /\ hits[1].score > 0
  /\ hits[1].score = hits[2].score
  /\ AllScores[3].score = hits[1].score
  /\ hits[1].id = 0
  /\ hits[2].id = 1

\* C12 as claimed: the norm of every passage of a snapshot is at least 1.
C12_NormFloored ==
  HasPassages => \A n \in 1..Len(index.chunks) : index.chunks[n].norm >= Unit

\* C12: the norm of every passage of a snapshot is above 0 and is the root of
\* the sum of its squared weights, also where that root is below 1.
C12_NormIsRoot ==
  HasPassages =>
    \A n \in 1..Len(index.chunks) :
      \A c \in {index.chunks[n]} : \A len2 \in {Len2(c.vec)} :
        /\ c.norm > 0
        /\ c.norm * c.norm <= len2
        /\ len2 < (c.norm + 1) * (c.norm + 1)

\* C12 witness: a passage of two distinct terms whose norm is below 1
C12_Witness ==
  /\ HasPassages
  /\ \E n \in 1..Len(index.chunks) :
       /\ Cardinality(DOMAIN index.chunks[n].vec) = 2
       /\ \A t \in DOMAIN index.chunks[n].vec : index.chunks[n].vec[t] < Unit
       /\ index.chunks[n].norm < Unit

----------------------------------------------------------------------------
(* buildTfIdfIndex as one call: how it ends and what it returns *)

\* lines 21-33: chunkText run from cursor cur with the array acc
RECURSIVE ChunkRun(_, _, _, _, _)
ChunkRun(t, size, ov, cur, acc) ==
  IF t = Undefined THEN [status |-> "raised"]
  ELSE IF ~(cur < Len(t)) THEN [status |-> "done", ret |-> FilterBoolean(acc)]
  ELSE IF Len(acc) + 1 > HeapLimit THEN [status |-> "exhausted"]
  ELSE LET s == ChunkStep(t, size, ov, cur, acc)
       IN ChunkRun(t, size, ov, s.i, s.parts)

\* lines 39-68: buildTfIdfIndex from document n on, with the array cs
RECURSIVE BuildFrom(_, _, _)
BuildFrom(ds, n, cs) ==
  IF n > Len(ds) THEN [status |-> "done", index |-> IndexOf(cs)]
  ELSE LET r == ChunkRun(ds[n].text, DefaultChunkSize, DefaultOverlap, 0, <<>>)
       IN IF r.status # "done" THEN [status |-> r.status]
          ELSE BuildFrom(ds, n + 1, Collect(cs, ds[n], r.ret))

\* lines 35-69: buildTfIdfIndex(ds)
BuildRun(ds) == BuildFrom(ds, 1, <<>>)

----------------------------------------------------------------------------
(* App and Documents.handleFiles *)

UploadIds == <<"u1", "u2", "u3", "u4", "u5", "u6">>

\* the texts read from an uploaded file
FileTexts == {<<>>, <<"a">>}

\* the files handed to handleFiles and not yet read
Pending == SumOver(DOMAIN calls, [n \in DOMAIN calls |-> Len(calls[n].files)])

\* lines 326-328 and line 522: setDocs(merged), setIndex(buildTfIdfIndex(merged)),
\* and the commit of the new docs schedules the effect of line 522.  A build
\* that does not return leaves App where it was, for good.
Merge(merged, r) ==
  IF r.status = "done"
  THEN /\ docs' = merged
       /\ index' = r.index
       /\ indexFrom' = merged
       /\ effects' = Append(effects, merged)
       /\ pc' = "app"
  ELSE /\ pc' = r.status
       /\ UNCHANGED <<docs, index, indexFrom, effects>>

\* lines 312-329 with an empty file list: handleFiles runs to its end at once
HandleNoFiles ==
  /\ pc = "app"
  /\ effects = <<>>
  /\ \E r \in {BuildRun(docs)} : Merge(docs, r)
  /\ UNCHANGED <<calls, nextId, asked, hits, chunkVars, buildVars>>

\* lines 312-317: handleFiles(files) with the docs of the current render, up to
\* the first await
HandleFiles(files) ==
  /\ pc = "app"
  /\ effects = <<>>
  /\ files # <<>>
  /\ nextId + Pending + Len(files) <= MaxUploads
  /\ calls' = Append(calls, [docs |-> docs, files |-> files, newDocs |-> <<>>])
  /\ UNCHANGED <<pc, docs, index, indexFrom, effects, nextId, asked, hits,
                 chunkVars, buildVars>>

\* lines 317-328: the file read call n awaits resolves: its document is pushed,
\* then the next file is awaited, or the documents are merged into the docs
\* the call started with
Resume(n) ==
  /\ pc = "app"
  /\ n \in DOMAIN calls
  /\ LET c == calls[n]
         doc == [id |-> UploadIds[nextId + 1], title |-> UploadIds[nextId + 1],
                 text |-> Head(c.files)]
         newDocs == Append(c.newDocs, doc)
         others == [m \in 1..(Len(calls) - 1) |-> IF m < n THEN calls[m] ELSE calls[m + 1]]
     IN /\ nextId' = nextId + 1
        /\ IF Len(c.files) > 1
           THEN /\ calls' = [calls EXCEPT ![n] = [docs |-> c.docs, files |-> Tail(c.files),
                                                  newDocs |-> newDocs]]
                /\ UNCHANGED <<pc, docs, index, indexFrom, effects>>
           ELSE /\ calls' = others
                /\ \E r \in {BuildRun(c.docs \o newDocs)} : Merge(c.docs \o newDocs, r)
  /\ UNCHANGED <<asked, hits, chunkVars, buildVars>>

\* an effect that builds the snapshot and does not store it
RunEffectSkips ==
  /\ pc = "app"
  /\ effects # <<>>
  /\ effects' = Tail(effects)
  /\ UNCHANGED <<pc, index, indexFrom, docs, calls, nextId, asked, hits,
                 chunkVars, buildVars>>

\* lines 521-522: the oldest committed effect runs setIndex(buildTfIdfIndex(docs))
\* with the docs of its render
RunEffect ==
  /\ pc = "app"
  /\ effects # <<>>
  /\ \E r \in {BuildRun(Head(effects))} :
       IF r.status = "done"
       THEN /\ index' = r.index
            /\ indexFrom' = Head(effects)
            /\ effects' = Tail(effects)
            /\ pc' = "app"
       ELSE /\ pc' = r.status
            /\ UNCHANGED <<index, indexFrom, effects>>
  /\ UNCHANGED <<docs, calls, nextId, asked, hits, chunkVars, buildVars>>

FileSeqs == UNION {[1..n -> FileTexts] : n \in 1..MaxUploads}

\* lines 515-522: App after its first commit: docs from localStorage or the
\* samples, no index, the two effects of lines 521 and 522 not yet run
AppInit ==
  /\ pc = "app"
  /\ docs \in UNION {DocSeqs(len, FileTexts) : len \in 0..1}
  /\ index = NoIndex
  /\ indexFrom = NoDocs
  /\ effects = <<docs, docs>>
  /\ calls = <<>>
  /\ nextId = 0
  /\ asked = NoQuery
  /\ hits = <<>>
  /\ text = <<>>
  /\ chunkSize = DefaultChunkSize
  /\ overlap = DefaultOverlap
  /\ i = 0
  /\ parts = <<>>
  /\ ret = <<>>
  /\ documents = <<>>
  /\ d = 0
  /\ chunks = <<>>
  /\ built = NoIndex

AppNext ==
  \/ RunEffect
  \/ HandleNoFiles
  \/ \E files \in FileSeqs : HandleFiles(files)
  \/ \E n \in 1..MaxUploads : Resume(n)

AppSpec == AppInit /\ [][AppNext]_vars

----------------------------------------------------------------------------
(* Claims about App *)

\* no effect is waiting to run and App has not stopped in a build
Quiescent == pc = "app" /\ effects = <<>>

\* C8: once the committed effects have run, the index is the one
\* buildTfIdfIndex returns for the current docs, and was built from them.
C8_IndexFollowsDocs ==
  Quiescent => (indexFrom = docs /\ index = BuildRun(docs).index)

\* C8 witness: two uploads have completed and their effects have run
C8_Witness ==
  /\ Quiescent
  /\ calls = <<>>
  /\ nextId = 2
  /\ Len(docs) >= 2
  /\ docs[Len(docs)].id = "u2"

\* C13: once every handleFiles invocation has completed, docs holds every
\* document an invocation created.
C13_NoUploadLost ==
  (pc = "app" /\ calls = <<>>)
    => \A n \in 1..nextId : \E m \in 1..Len(docs) : docs[m].id = UploadIds[n]

====
